---- MODULE Spec2Model ----
(***************************************************************************)
(* The capture -> classification -> prioritisation -> decision pipeline of *)
(* python-runner/core: CaptureProcessor, Prioritizer, DecisionEngine and   *)
(* Brain.                                                                  *)
(*                                                                         *)
(* Representation.                                                         *)
(*   - a Python str that the code slices, lowercases or searches is a      *)
(*     sequence of one-character strings; opaque labels (enum values, ids, *)
(*     log texts) are TLA+ strings;                                        *)
(*   - Optional[T] is a sequence of length 0 (None) or 1;                  *)
(*   - a datetime is a number of hours since 2025-01-01T00:00;             *)
(*   - a confidence is a number of hundredths (0.7 is 70);                 *)
(*   - a score is a number of 1/Scale (80.0 is 80 * Scale);                *)
(*   - a call that can raise returns [raised, value].                      *)
(***************************************************************************)
EXTENDS Integers, Sequences, FiniteSets, TLC

VARIABLES
    pending_items,      \* BrainState.pending_items
    pending_decisions,  \* BrainState.pending_decisions
    processed_today,    \* BrainState.processed_today
    last_review,        \* BrainState.last_review
    tasks,              \* the rows of the tasks table
    notes,              \* the rows of the notes table
    vectors,            \* the points of the vector collection
    serial,             \* the last id each table's sequence handed out
    ingests,            \* the number of ingest calls made so far
    notified,           \* the notifications the last operation sent
    now,                \* the wall clock read by datetime.now()
    frames,             \* the calls in progress, each with its position and locals
    op,                 \* the operation that ran last ("none" before any)
    inp,                \* its arguments and the outcomes of its collaborators
    out                 \* what it returned or raised

vars == <<pending_items, pending_decisions, processed_today, last_review,
          tasks, notes, vectors, serial, ingests, notified, now, frames, op, inp,
          out>>

brainState == <<pending_items, pending_decisions, processed_today, last_review>>

stores == <<tasks, notes, vectors, serial>>

\* a Brain() just constructed over empty stores, at time t
Fresh(t) ==
    /\ pending_items = <<>>
    /\ pending_decisions = <<>>
    /\ processed_today = 0
    /\ last_review = <<>>
    /\ tasks = <<>>
    /\ notes = <<>>
    /\ vectors = {}
    /\ frames = <<>>
    /\ serial = [tasks |-> 0, notes |-> 0]
    /\ ingests = 0
    /\ notified = <<>>
    /\ now = t
    /\ op = "none"

\* ------------------------------------------------------------------ bounds

MaxFrags == 2       \* a capture text is at most this many fragments
PadLen == 74        \* length of the filler fragment

\* ----------------------------------------------------------------- strings

None == <<>>
Some(x) == <<x>>

Min(a, b) == IF a < b THEN a ELSE b
Max(a, b) == IF a > b THEN a ELSE b

UpperChars ==
    <<"A","B","C","D","E","F","G","H","I","J","K","L","M","N","O","P","Q","R",
      "S","T","U","V","W","X","Y","Z","É","È","À","Ô">>
LowerChars ==
    <<"a","b","c","d","e","f","g","h","i","j","k","l","m","n","o","p","q","r",
      "s","t","u","v","w","x","y","z","é","è","à","ô">>

\* str.lower() on one character
LowerChar(c) ==
    IF \E i \in 1..Len(UpperChars) : UpperChars[i] = c
    THEN LowerChars[CHOOSE i \in 1..Len(UpperChars) : UpperChars[i] = c]
    ELSE c

\* str.lower()
Lower(s) == [i \in 1..Len(s) |-> LowerChar(s[i])]

\* kw in s
Contains(s, kw) ==
    \E i \in 0..(Len(s) - Len(kw)) : SubSeq(s, i + 1, i + Len(kw)) = kw

\* s[:n] for n >= 0
Prefix(s, n) == SubSeq(s, 1, Min(n, Len(s)))

\* ------------------------------------------------------------------- enums

ItemTypes == {"task", "event", "project", "note", "reference", "question",
              "chat", "delete", "unknown"}
Priorities == {"critical", "high", "normal", "low", "none"}
Urgencies == {"immediate", "today", "soon", "sometime", "unknown"}

\* -------------------------------------------------------------- the oracle

\* ClassificationResult.due_date strings that datetime.fromisoformat accepts,
\* with the datetime each denotes
IsoValue ==
    ("2025-01-09" :> 192) @@ ("2025-01-10" :> 216) @@
    ("2025-01-10T18:00" :> 234) @@ ("2025-01-11" :> 240) @@
    ("2025-01-13" :> 288) @@ ("2025-01-17" :> 384)

\* datetime.fromisoformat: raises ValueError on any other text
FromIsoformat(s) ==
    IF s \in DOMAIN IsoValue
    THEN [raised |-> FALSE, value |-> Some(IsoValue[s])]
    ELSE [raised |-> TRUE, value |-> None]

\* LLMClient.classify: env.ready is is_ready(); env.strict and env.json are
\* the outcomes of the two provider calls, each [raised, value] where value
\* is the parsed ClassificationResult (None when the provider refused)
classify(env) ==
    IF ~env.ready THEN None
    ELSE IF ~env.strict.raised THEN env.strict.value
    ELSE IF ~env.json.raised THEN env.json.value
    ELSE None

\* ----------------------------------------------------------- the processor

TitleLimit == 80

URGENCY_KEYWORDS ==
    << <<"immediate",
         << <<"u","r","g","e","n","t">>,
            <<"a","s","a","p">>,
            <<"m","a","i","n","t","e","n","a","n","t">>,
            <<"i","m","m","é","d","i","a","t">>,
            <<"c","r","i","t","i","q","u","e">> >> >>,
       <<"today",
         << <<"a","u","j","o","u","r","d","'","h","u","i">>,
            <<"c","e"," ","s","o","i","r">>,
            <<"a","v","a","n","t"," ","c","e"," ","s","o","i","r">> >> >>,
       <<"soon",
         << <<"c","e","t","t","e"," ","s","e","m","a","i","n","e">>,
            <<"b","i","e","n","t","ô","t">>,
            <<"r","a","p","i","d","e","m","e","n","t">>,
            <<"d","è","s"," ","q","u","e"," ","p","o","s","s","i","b","l","e">> >> >> >>

\* the loop of _detect_urgency from entry k of URGENCY_KEYWORDS on
RECURSIVE DetectFrom(_, _)
DetectFrom(content, k) ==
    IF k > Len(URGENCY_KEYWORDS) THEN "unknown"
    ELSE IF \E j \in 1..Len(URGENCY_KEYWORDS[k][2]) :
                Contains(content, URGENCY_KEYWORDS[k][2][j])
         THEN URGENCY_KEYWORDS[k][1]
         ELSE DetectFrom(content, k + 1)

\* _detect_urgency with the soon tier tried before the other two
_detect_urgencySoonFirst(content) ==
    IF DetectFrom(content, 3) = "soon" THEN "soon" ELSE DetectFrom(content, 1)

_detect_urgency(content) == DetectFrom(content, 1)

_compute_priority(urgency) ==
    CASE urgency = "immediate" -> "critical"
      [] urgency = "today" -> "high"
      [] urgency = "soon" -> "normal"
      [] urgency = "sometime" -> "low"
      [] urgency = "unknown" -> "none"
      [] OTHER -> "none"

_suggest_actions(item_type, priority) ==
    CASE item_type = "task" ->
            <<"Ajouter à la liste de tâches">>
            \o (IF priority = "critical" THEN <<"Faire maintenant">> ELSE <<>>)
      [] item_type = "event" -> <<"Ajouter au calendrier">>
      [] item_type = "note" -> <<"Archiver">>
      [] item_type = "question" -> <<"Rechercher réponse">>
      [] OTHER -> <<>>

\* the due-date block of process with its try/except removed: a parse error
\* propagates
DueDateOfNoExcept(r) ==
    IF r.due_date # None /\ r.due_date[1] # "" /\ r.due_date[1] \notin {"None", "N/A"}
    THEN FromIsoformat(r.due_date[1])
    ELSE [raised |-> FALSE, value |-> None]

\* process, "Parse LLM date": the bare except swallows the parse error
DueDateOf(r) ==
    IF r.due_date # None /\ r.due_date[1] # "" /\ r.due_date[1] \notin {"None", "N/A"}
    THEN LET parsed == FromIsoformat(r.due_date[1])
         IN  IF parsed.raised THEN [raised |-> FALSE, value |-> None] ELSE parsed
    ELSE [raised |-> FALSE, value |-> None]

\* the decision test of process with the item-type disjunct left out
needs_decision_flagNoUnknown(confidence, item_type) == confidence < 70

\* process, "Decide if human decision is needed": the needs_decision local
needs_decision_flag(confidence, item_type) ==
    (confidence < 70) \/ (item_type = "unknown")

\* CaptureProcessor.process; source_capture is carried by id and description
process(capture, env) ==
    LET content == capture.content
        llm_result == classify(env)
        ok == llm_result # None
        due == IF ok THEN DueDateOf(llm_result[1])
               ELSE [raised |-> FALSE, value |-> None]
        item_type == IF ok THEN llm_result[1].type ELSE "note"
        title == IF ok THEN llm_result[1].summary ELSE Prefix(content, TitleLimit)
        confidence == IF ok THEN llm_result[1].confidence ELSE 50
        urgency == _detect_urgency(Lower(content))
        priority == _compute_priority(urgency)
        needs_decision == needs_decision_flag(confidence, item_type)
    IN  IF due.raised THEN [raised |-> TRUE, value |-> None]
        ELSE [raised |-> FALSE,
              value |-> Some(
                [id |-> capture.id,
                 item_type |-> item_type,
                 title |-> title,
                 description |-> content,
                 priority |-> priority,
                 due_date |-> due.value,
                 confidence |-> confidence,
                 needs_human_decision |-> needs_decision,
                 decision_context |->
                     IF ok THEN llm_result[1].reasoning ELSE "Fallback processing",
                 suggested_actions |-> _suggest_actions(item_type, priority)])]

\* ------------------------------------------------- inputs of the processor

Pad == [i \in 1..PadLen |-> "x"]

Fragments ==
    { Pad,
      <<"U","R","G","E","N","T">>,
      <<"C","e"," ","s","o","i","r">>,
      <<"b","i","e","n","t","ô","t">> }

RECURSIVE Texts(_)
Texts(n) ==
    IF n = 0 THEN { <<>> }
    ELSE Texts(n - 1) \cup { t \o f : t \in Texts(n - 1), f \in Fragments }

Summaries == { <<>>, <<"R","e","n","e","w"," ","i","n","s","u","r","a","n","c","e">> }
Confidences == { -50, 50, 69, 70, 95, 150 }
DueStrings == { None, Some(""), Some("None"), Some("N/A"), Some("vendredi"),
                Some("2025-01-10") }

ClassificationResults ==
    [type : ItemTypes, summary : Summaries, confidence : Confidences,
     reasoning : {"llm reasoning"}, due_date : DueStrings]

Raised == [raised |-> TRUE, value |-> None]
Returned(v) == [raised |-> FALSE, value |-> v]

\* the outcomes of the oracle over a result pool R
OracleEnvs(R) ==
    { [ready |-> FALSE, strict |-> Raised, json |-> Raised] }
    \cup { [ready |-> TRUE, strict |-> Returned(None), json |-> Raised] }
    \cup { [ready |-> TRUE, strict |-> Raised, json |-> Raised] }
    \cup { [ready |-> TRUE, strict |-> Returned(Some(r)), json |-> Raised] : r \in R }
    \cup { [ready |-> TRUE, strict |-> Raised, json |-> Returned(Some(r))] : r \in R }

Captures == [id : {"a"}, content : Texts(MaxFrags)]

\* -------------------------------------------- specification: the processor

InitProcess ==
    /\ Fresh(0)
    /\ inp \in [capture : Captures, env : OracleEnvs(ClassificationResults)]
    /\ out = Raised

DoProcess ==
    /\ op = "none"
    /\ op' = "process"
    /\ out' = process(inp.capture, inp.env)
    /\ UNCHANGED <<frames, brainState, stores, ingests, notified, now, inp>>

NextProcess == DoProcess

SpecProcess == InitProcess /\ [][NextProcess]_vars

\* C1: process never raises, and when the oracle yields no result the item is
\* the fixed fallback: a note titled with the first 80 characters of the text,
\* confidence 0.5, no due date, flagged for a human decision, with a rationale
\* that records the fallback.
C1_ProcessFallback ==
    op = "process" =>
        /\ ~out.raised
        /\ out.value # None
        /\ classify(inp.env) = None =>
            LET item == out.value[1]
                text == inp.capture.content
            IN  /\ item.item_type = "note"
                /\ Len(item.title) = Min(Len(text), 80)
                /\ \A i \in 1..Len(item.title) : item.title[i] = text[i]
                /\ item.confidence = 50
                /\ item.due_date = None
                /\ item.needs_human_decision
                /\ item.decision_context = "Fallback processing"

\* an oracle failure on a text longer than 80 characters: the title is cut
C1_Witness ==
    /\ op = "process"
    /\ classify(inp.env) = None
    /\ Len(inp.capture.content) > 80
    /\ ~out.raised
    /\ Len(out.value[1].title) = 80

\* C14: every item returned by process has its confidence in [0,1], whatever
\* confidence the oracle returned.
C14_ConfidenceInUnitInterval ==
    (op = "process" /\ ~out.raised) =>
        (out.value[1].confidence >= 0 /\ out.value[1].confidence <= 100)

\* C15: the priority comes from the urgency keywords of the lowercased raw
\* text alone: a keyword of the immediate tier gives critical, else one of
\* the today tier gives high, else one of the soon tier gives normal, else
\* none; neither the oracle's outcome nor the due date changes it.
C15_PriorityFromKeywords ==
    (op = "process" /\ ~out.raised) =>
        LET text == Lower(inp.capture.content)
            Has(k) == \E j \in 1..Len(URGENCY_KEYWORDS[k][2]) :
                          Contains(text, URGENCY_KEYWORDS[k][2][j])
        IN  /\ URGENCY_KEYWORDS[1][1] = "immediate"
            /\ URGENCY_KEYWORDS[2][1] = "today"
            /\ URGENCY_KEYWORDS[3][1] = "soon"
            /\ out.value[1].priority =
                   IF Has(1) THEN "critical"
                   ELSE IF Has(2) THEN "high"
                   ELSE IF Has(3) THEN "normal"
                   ELSE "none"

\* an oracle failure on a text that holds a soon keyword before an upper-case
\* immediate keyword: the item is critical
C15_Witness ==
    /\ op = "process"
    /\ classify(inp.env) = None
    /\ inp.capture.content =
           <<"b","i","e","n","t","ô","t">> \o <<"U","R","G","E","N","T">>
    /\ out.value[1].priority = "critical"

\* an oracle task with a due date on a text without keyword: priority none
C15_WitnessDueDate ==
    /\ op = "process"
    /\ classify(inp.env) # None
    /\ inp.capture.content = Pad
    /\ out.value[1].item_type = "task"
    /\ out.value[1].due_date # None
    /\ out.value[1].priority = "none"

\* C16: needs_human_decision is true exactly when confidence < 0.7 or the
\* type is unknown, so an item that needs no human decision is never of
\* type unknown.
C16_FlagIffLowConfidenceOrUnknown ==
    (op = "process" /\ ~out.raised) =>
        LET item == out.value[1]
        IN  /\ item.needs_human_decision <=>
                   (item.confidence < 70 \/ item.item_type = "unknown")
            /\ ~item.needs_human_decision => item.item_type # "unknown"

\* the oracle is confident and answers unknown: the item is flagged
C16_Witness ==
    /\ op = "process"
    /\ ~out.raised
    /\ out.value[1].item_type = "unknown"
    /\ out.value[1].confidence = 95
    /\ out.value[1].needs_human_decision

\* --------------------------------------------------------- the prioritizer

Scale == 100000

\* Prioritizer.WEIGHTS, in tenths
WEIGHTS == [deadline |-> 4, priority |-> 3, type |-> 2, confidence |-> 1]

\* UserContext()
DefaultContext ==
    [current_energy |-> "normal", is_deep_work_time |-> FALSE, focus_project |-> None]

\* _score_deadline with each bracket closed at its upper end
_score_deadlineInclusive(due_date, t) ==
    IF due_date = None THEN 30
    ELSE LET delta == due_date[1] - t
         IN  IF delta < 0 THEN 100
             ELSE IF delta <= 24 THEN 90
             ELSE IF delta <= 72 THEN 70
             ELSE IF delta <= 168 THEN 50
             ELSE 30

\* _score_deadline that rates a missing due date like an overdue one
_score_deadlineNoneOverdue(due_date, t) ==
    IF due_date = None THEN 100
    ELSE LET delta == due_date[1] - t
         IN  IF delta < 0 THEN 100
             ELSE IF delta < 24 THEN 90
             ELSE IF delta < 72 THEN 70
             ELSE IF delta < 168 THEN 50
             ELSE 30

\* t is datetime.now(); the delta is in hours
_score_deadline(due_date, t) ==
    IF due_date = None THEN 30
    ELSE LET delta == due_date[1] - t
         IN  IF delta < 0 THEN 100
             ELSE IF delta < 24 THEN 90
             ELSE IF delta < 72 THEN 70
             ELSE IF delta < 168 THEN 50
             ELSE 30

_score_priority(priority) ==
    CASE priority = "critical" -> 100
      [] priority = "high" -> 75
      [] priority = "normal" -> 50
      [] priority = "low" -> 25
      [] priority = "none" -> 10
      [] OTHER -> 10

_score_type(item_type) ==
    CASE item_type = "task" -> 80
      [] item_type = "event" -> 70
      [] item_type = "project" -> 60
      [] item_type = "note" -> 30
      [] item_type = "reference" -> 20
      [] item_type = "unknown" -> 50
      [] OTHER -> 50

Complexe == <<"c","o","m","p","l","e","x","e">>

\* _apply_context_modifiers that caps the score at 100 after every factor
_apply_context_modifiersCapped(score, item, context) ==
    LET s1 == IF /\ context.current_energy = "low"
                 /\ Contains(Lower(item.title \o item.description), Complexe)
              THEN Min(100 * Scale, (score * 7) \div 10) ELSE score
        s2 == IF /\ context.focus_project # None
                 /\ context.focus_project[1] # <<>>
                 /\ Contains(Lower(item.title), Lower(context.focus_project[1]))
              THEN Min(100 * Scale, (s1 * 13) \div 10) ELSE s1
        s3 == IF context.is_deep_work_time
              THEN IF item.item_type = "task" THEN Min(100 * Scale, (s2 * 12) \div 10)
                   ELSE IF item.item_type = "note" THEN Min(100 * Scale, (s2 * 5) \div 10)
                   ELSE s2
              ELSE s2
    IN  s3

\* score is in 1/Scale; each factor is a number of tenths
_apply_context_modifiers(score, item, context) ==
    LET s1 == IF /\ context.current_energy = "low"
                 /\ Contains(Lower(item.title \o item.description), Complexe)
              THEN (score * 7) \div 10 ELSE score
        s2 == IF /\ context.focus_project # None
                 /\ context.focus_project[1] # <<>>
                 /\ Contains(Lower(item.title), Lower(context.focus_project[1]))
              THEN (s1 * 13) \div 10 ELSE s1
        s3 == IF context.is_deep_work_time
              THEN IF item.item_type = "task" THEN (s2 * 12) \div 10
                   ELSE IF item.item_type = "note" THEN (s2 * 5) \div 10
                   ELSE s2
              ELSE s2
    IN  s3

\* the weighted sum of score with the context modifiers applied, before the clamp
ModifiedTotal(item, context, t) ==
    LET ctx == IF context = None THEN DefaultContext ELSE context[1]
        deadline_score == _score_deadline(item.due_date, t)
        priority_score == _score_priority(item.priority)
        type_score == _score_type(item.item_type)
        confidence_score == item.confidence
        total == ( WEIGHTS.deadline * deadline_score
                 + WEIGHTS.priority * priority_score
                 + WEIGHTS.type * type_score
                 + WEIGHTS.confidence * confidence_score ) * (Scale \div 10)
    IN  _apply_context_modifiers(total, item, ctx)

\* score without its final min/max
scoreNoClamp(item, context, t) == ModifiedTotal(item, context, t)

\* Prioritizer.score; context is Optional[UserContext]
score(item, context, t) ==
    Min(100 * Scale, Max(0, ModifiedTotal(item, context, t)))

\* ------------------------------------------------ inputs of the prioritizer

MkItem(id, item_type, title, description, priority, due_date, confidence, flag) ==
    [id |-> id,
     item_type |-> item_type,
     title |-> title,
     description |-> description,
     priority |-> priority,
     due_date |-> due_date,
     confidence |-> confidence,
     needs_human_decision |-> flag,
     decision_context |-> "llm reasoning",
     suggested_actions |-> _suggest_actions(item_type, priority)]

Titles == { <<"R","e","n","e","w"," ","i","n","s","u","r","a","n","c","e">>,
            <<"P","r","o","j","e","t"," ","C","o","m","p","l","e","x","e">> }

DueDates == {None} \cup { Some(IsoValue[s]) : s \in DOMAIN IsoValue }

ScoreConfidences == { -1000, 0, 50, 100, 500 }

ScoreItems ==
    { MkItem("a", ty, ti, <<>>, pr, du, co, FALSE) :
        ty \in ItemTypes, ti \in Titles, pr \in Priorities, du \in DueDates,
        co \in ScoreConfidences }

Contexts ==
    {None} \cup
    { Some(c) : c \in [current_energy : {"low", "normal", "high"},
                       is_deep_work_time : BOOLEAN,
                       focus_project : {None, Some(<<>>),
                                        Some(<<"p","r","o","j","e","t">>)}] }

\* the instant the pure functions are called at: 2025-01-10T00:00
ScoreNow == IsoValue["2025-01-10"]

\* ----------------------------------------------- specification: the scoring

InitScore ==
    /\ Fresh(ScoreNow)
    /\ inp \in [item : ScoreItems, context : Contexts]
    /\ out = 0

DoScore ==
    /\ op = "none"
    /\ op' = "score"
    /\ out' = score(inp.item, inp.context, now)
    /\ UNCHANGED <<frames, brainState, stores, ingests, notified, now, inp>>

\* the deadline sub-score of the item, as score calls it
DoScoreDeadline ==
    /\ op = "none"
    /\ op' = "_score_deadline"
    /\ out' = _score_deadline(inp.item.due_date, now)
    /\ UNCHANGED <<frames, brainState, stores, ingests, notified, now, inp>>

NextScore == DoScore \/ DoScoreDeadline

SpecScore == InitScore /\ [][NextScore]_vars

\* C3: score returns a value in [0,100] for every item and context, also
\* when the modified weighted sum lies above 100 or below 0.
C3_ScoreInRange ==
    op = "score" => (0 <= out /\ out <= 100 * Scale)

\* the focus-project and deep-work factors compound a weighted sum that is
\* below 100 to a value above 100, and score returns 100
C3_Witness ==
    /\ op = "score"
    /\ inp.item.confidence <= 100
    /\ ModifiedTotal(inp.item, None, now) < 100 * Scale
    /\ ModifiedTotal(inp.item, inp.context, now) > 100 * Scale
    /\ out = 100 * Scale

\* a weighted sum below 0 is returned as 0
C3_WitnessBelow ==
    /\ op = "score"
    /\ ModifiedTotal(inp.item, inp.context, now) < 0
    /\ out = 0

\* C23: the deadline sub-score is 30 without a due date, 100 when the due
\* date is past, 90 under 24 hours, 70 under 72 hours, 50 under 168 hours and
\* 30 beyond; exactly 24, 72 and 168 hours give 70, 50 and 30, and a due date
\* of yesterday gives 100 whatever the priority.
C23_DeadlineStepFunction ==
    op = "_score_deadline" =>
        LET due == inp.item.due_date
            hours == due[1] - now
        IN  /\ due = None => out = 30
            /\ due # None =>
                  /\ hours < 0 => out = 100
                  /\ (0 <= hours /\ hours < 24) => out = 90
                  /\ (24 <= hours /\ hours < 72) => out = 70
                  /\ (72 <= hours /\ hours < 168) => out = 50
                  /\ 168 <= hours => out = 30

\* a due date exactly 24 hours ahead is rated 70
C23_Witness ==
    /\ op = "_score_deadline"
    /\ inp.item.due_date = Some(now + 24)
    /\ out = 70

\* a due date of yesterday on an item without priority is rated 100
C23_WitnessYesterday ==
    /\ op = "_score_deadline"
    /\ inp.item.due_date = Some(now - 24)
    /\ inp.item.priority = "none"
    /\ out = 100

\* C24: score is the weighted sum (weights 0.4, 0.3, 0.2, 0.1, together 1.0)
\* times 0.7 for low energy with the complexity keyword in title or
\* description, times 1.3 for a focus project named in the title, times 1.2
\* for a task or 0.5 for a note under deep work, every factor that does not
\* apply being 1; the product is clamped to [0,100] once, at the end.
C24_ModifiersThenClamp ==
    op = "score" =>
        LET item == inp.item
            ctx == IF inp.context = None THEN DefaultContext ELSE inp.context[1]
            sum == 4 * _score_deadline(item.due_date, now)
                   + 3 * _score_priority(item.priority)
                   + 2 * _score_type(item.item_type)
                   + item.confidence
            energy == IF /\ ctx.current_energy = "low"
                         /\ Contains(Lower(item.title \o item.description), Complexe)
                      THEN 7 ELSE 10
            focus == IF /\ ctx.focus_project \notin {None, Some(<<>>)}
                        /\ Contains(Lower(item.title), Lower(ctx.focus_project[1]))
                     THEN 13 ELSE 10
            deep == IF ~ctx.is_deep_work_time THEN 10
                    ELSE IF item.item_type = "task" THEN 12
                    ELSE IF item.item_type = "note" THEN 5
                    ELSE 10
            product == sum * energy * focus * deep    \* in 1/10000
        IN  /\ WEIGHTS.deadline + WEIGHTS.priority + WEIGHTS.type
                + WEIGHTS.confidence = 10
            /\ out = Min(100 * Scale, Max(0, product * (Scale \div 10000)))

\* a note whose weighted sum times 1.3 is above 100 and whose final product,
\* after the 0.5 of deep work, is returned unclamped
C24_Witness ==
    /\ op = "score"
    /\ inp.item.item_type = "note"
    /\ inp.context # None
    /\ inp.context[1].is_deep_work_time
    /\ ModifiedTotal(inp.item, None, now) * 13 > 1000 * Scale
    /\ out * 20 = ModifiedTotal(inp.item, None, now) * 13
    /\ out > 50 * Scale

\* C30: under the default context an item without due date and with
\* confidence in [0,1] scores at most 68, so below the 80 of the urgent
\* notification.
C30_NoDueDateBelow80 ==
    (/\ op = "score"
     /\ inp.context = None
     /\ inp.item.due_date = None
     /\ inp.item.confidence >= 0
     /\ inp.item.confidence <= 100) =>
        (out <= 68 * Scale /\ out < 80 * Scale)

\* a critical task of confidence 1 without due date scores exactly 68
C30_Witness ==
    /\ op = "score"
    /\ inp.context = None
    /\ inp.item.due_date = None
    /\ inp.item.confidence = 100
    /\ inp.item.priority = "critical"
    /\ inp.item.item_type = "task"
    /\ out = 68 * Scale

\* ------------------------------------------------------ rank, top_actions

MaxList == 3        \* longest item list handed to rank and top_actions
MaxN == 2           \* largest limit / n handed to rank and top_actions

\* list.sort(key=score, reverse=True) with the stability lost: an element is
\* placed before the elements of equal score
InsertBeforeEqual(sorted, x) ==
    LET k == Cardinality({ i \in 1..Len(sorted) : sorted[i][2] > x[2] })
    IN  SubSeq(sorted, 1, k) \o <<x>> \o SubSeq(sorted, k + 1, Len(sorted))

\* one step of the stable descending sort: x, which came after every element
\* of sorted in the input, goes behind the elements whose score is >= its own
InsertDesc(sorted, x) ==
    LET k == Cardinality({ i \in 1..Len(sorted) : sorted[i][2] >= x[2] })
    IN  SubSeq(sorted, 1, k) \o <<x>> \o SubSeq(sorted, k + 1, Len(sorted))

\* scored.sort(key=lambda x: x[1], reverse=True)
RECURSIVE SortDesc(_)
SortDesc(scored) ==
    IF scored = <<>> THEN <<>>
    ELSE InsertDesc(SortDesc(SubSeq(scored, 1, Len(scored) - 1)), scored[Len(scored)])

\* scored[:limit], for a negative limit too
SliceTo(scored, limit) ==
    IF limit >= 0 THEN Prefix(scored, limit)
    ELSE SubSeq(scored, 1, Max(0, Len(scored) + limit))

\* Prioritizer.rank; limit is Optional[int], and "if limit:" is false for None and 0
rank(items, context, limit, t) ==
    LET scored == [i \in 1..Len(items) |-> <<items[i], score(items[i], context, t)>>]
        sorted == SortDesc(scored)
    IN  IF limit # None /\ limit[1] # 0 THEN SliceTo(sorted, limit[1]) ELSE sorted

\* top_actions without its filter on the item type
top_actionsNoFilter(items, context, n, t) ==
    LET ranked == rank(items, context, Some(n), t)
    IN  [i \in 1..Len(ranked) |-> ranked[i][1]]

\* Prioritizer.top_actions
top_actions(items, context, n, t) ==
    LET task_items == SelectSeq(items, LAMBDA i : i.item_type = "task")
        ranked == rank(task_items, context, Some(n), t)
    IN  [i \in 1..Len(ranked) |-> ranked[i][1]]

\* Brain.get_today_focus
get_today_focus(items, n, t) == top_actions(items, None, n, t)

\* -------------------------------------------------- inputs of rank

RankTitle == <<"R","e","n","e","w">>

\* two tasks of equal score, a task that outscores them, a note that outscores
\* every task, and an event
RankPool ==
    { MkItem("t1", "task", RankTitle, <<>>, "none", None, 95, FALSE),
      MkItem("t2", "task", RankTitle, <<>>, "none", None, 95, FALSE),
      MkItem("t3", "task", RankTitle, <<>>, "high", Some(234), 70, FALSE),
      MkItem("n1", "note", RankTitle, <<>>, "critical", Some(192), 100, FALSE),
      MkItem("e1", "event", RankTitle, <<>>, "none", None, 50, TRUE) }

RECURSIVE Lists(_, _)
Lists(S, n) ==
    IF n = 0 THEN { <<>> }
    ELSE Lists(S, n - 1) \cup { Append(l, x) : l \in Lists(S, n - 1), x \in S }

RankContexts ==
    { None,
      Some([current_energy |-> "normal", is_deep_work_time |-> TRUE,
            focus_project |-> None]) }

Limits == {None} \cup { Some(k) : k \in 0..MaxN }

\* -------------------------------------- specification: rank and top_actions

InitRank ==
    /\ Fresh(ScoreNow)
    /\ inp \in [items : Lists(RankPool, MaxList), context : RankContexts,
                limit : Limits, n : 0..MaxN]
    /\ out = <<>>

DoRank ==
    /\ op = "none"
    /\ op' = "rank"
    /\ out' = rank(inp.items, inp.context, inp.limit, now)
    /\ UNCHANGED <<frames, brainState, stores, ingests, notified, now, inp>>

DoTopActions ==
    /\ op = "none"
    /\ op' = "top_actions"
    /\ out' = top_actions(inp.items, inp.context, inp.n, now)
    /\ UNCHANGED <<frames, brainState, stores, ingests, notified, now, inp>>

\* get_today_focus of a Brain whose pending_items are inp.items
DoGetTodayFocus ==
    /\ op = "none"
    /\ op' = "get_today_focus"
    /\ out' = get_today_focus(inp.items, inp.n, now)
    /\ UNCHANGED <<frames, brainState, stores, ingests, notified, now, inp>>

NextRank == DoRank \/ DoTopActions \/ DoGetTodayFocus

SpecRank == InitRank /\ [][NextRank]_vars

\* the bijections between the positions of an output and those of the input
Perms(n) == { p \in [1..n -> 1..n] : \A i, j \in 1..n : i # j => p[i] # p[j] }

\* C8: rank without a limit returns every input item paired with its score,
\* by descending score, items of equal score in their input order.
C8_RankSortedStable ==
    (op = "rank" /\ inp.limit = None) =>
        /\ Len(out) = Len(inp.items)
        /\ \E p \in Perms(Len(out)) :
              /\ \A i \in 1..Len(out) :
                    /\ out[i][1] = inp.items[p[i]]
                    /\ out[i][2] = score(inp.items[p[i]], inp.context, now)
              /\ \A i, j \in 1..Len(out) :
                    i < j => \/ out[i][2] > out[j][2]
                             \/ (out[i][2] = out[j][2] /\ p[i] < p[j])

\* three items ranked, the two tasks of equal score in input order t2, t1 and
\* behind an item that came after them
C8_Witness ==
    /\ op = "rank"
    /\ inp.limit = None
    /\ Len(out) = 3
    /\ inp.items[1].id = "t2" /\ inp.items[2].id = "t1" /\ inp.items[3].id = "n1"
    /\ out[1][1].id = "n1" /\ out[2][1].id = "t2" /\ out[3][1].id = "t1"

\* C9: top_actions, and get_today_focus with it, never returns an item whose
\* type is not task.
C9_TopActionsOnlyTasks ==
    op \in {"top_actions", "get_today_focus"} =>
        \A i \in 1..Len(out) : out[i].item_type = "task"

\* the input holds a note that outscores every task of the input, and tasks
\* are returned
C9_Witness ==
    /\ op = "top_actions"
    /\ Len(out) > 0
    /\ \E i \in 1..Len(inp.items) :
          /\ inp.items[i].item_type = "note"
          /\ \A j \in 1..Len(inp.items) :
                inp.items[j].item_type = "task" =>
                    score(inp.items[i], inp.context, now)
                        > score(inp.items[j], inp.context, now)

\* C10: top_actions(items, n) returns at most n items, and rank with limit L
\* at most L pairs.
C10_AtMostN ==
    /\ op = "top_actions" => Len(out) <= inp.n
    /\ (op = "rank" /\ inp.limit # None) => Len(out) <= inp.limit[1]

\* ------------------------------------------------------ the decision engine

DecisionTypes == {"clarification", "conflict", "delegation", "prioritization",
                  "go_no_go"}

\* needs_decision without its test of the priority
needs_decisionNoCritical(item) ==
    LET reasons ==
            (IF item.confidence < 70 THEN <<"confiance_faible">> ELSE <<>>)
            \o (IF item.needs_human_decision THEN <<"marqué_pour_décision">> ELSE <<>>)
    IN  Len(reasons) > 0

\* DecisionEngine.needs_decision
needs_decision(item) ==
    LET reasons ==
            (IF item.confidence < 70 THEN <<"confiance_faible">> ELSE <<>>)
            \o (IF item.priority = "critical" THEN <<"priorité_critique">> ELSE <<>>)
            \o (IF item.needs_human_decision THEN <<"marqué_pour_décision">> ELSE <<>>)
    IN  Len(reasons) > 0

\* the question is the template of the decision type around the item's title
_formulate_question(item, dtype) == [template |-> dtype, title |-> item.title]

_generate_options(item, dtype) ==
    CASE dtype = "clarification" ->
            <<"C'est une tâche → ajouter aux rappels",
              "C'est un événement → ajouter au calendrier",
              "C'est une note → archiver",
              "Ignorer / supprimer">>
      [] dtype = "go_no_go" ->
            <<"Go", "No-go", "Reporter", "Besoin de plus d'infos">>
      [] dtype = "delegation" ->
            <<"Je le fais", "Déléguer", "Automatiser", "Supprimer">>
      [] dtype = "prioritization" ->
            <<"Critique", "Haute", "Normale", "Basse">>
      [] OTHER -> <<"Oui", "Non", "Reporter">>

_make_recommendation(item, dtype) ==
    IF item.confidence >= 80 /\ dtype = "clarification"
    THEN IF item.suggested_actions # <<>> THEN Some(item.suggested_actions[1]) ELSE None
    ELSE None

\* one fact per line; the due date is printed as its day (strftime %d/%m/%Y)
_build_reasoning(item, dtype, constraints) ==
    << <<"Type détecté", item.item_type>>, <<"Confiance", item.confidence>> >>
    \o (IF item.due_date # None THEN << <<"Échéance", item.due_date[1] \div 24>> >> ELSE <<>>)
    \o (IF item.priority # "none" THEN << <<"Priorité", item.priority>> >> ELSE <<>>)
    \o (IF constraints # <<>> THEN << <<"Contraintes", constraints>> >> ELSE <<>>)

\* the names decisions.py imports from datetime: "from datetime import datetime"
DatetimeImports == {"datetime"}

\* DecisionEngine.prepare with the default DecisionContext(); the deadline line
\* uses the name timedelta, and using a name the module does not bind raises
\* NameError
prepare(item, decision_type) ==
    LET decision ==
            [id |-> "dec-" \o item.id,
             question |-> _formulate_question(item, decision_type),
             options |-> _generate_options(item, decision_type),
             recommendation |-> _make_recommendation(item, decision_type),
             reasoning |-> _build_reasoning(item, decision_type, <<>>),
             deadline |-> None,
             related_items |-> <<item.id>>]
    IN  IF item.due_date # None
        THEN IF "timedelta" \in DatetimeImports
             THEN Returned(Some([decision EXCEPT !.deadline = Some(item.due_date[1] - 24)]))
             ELSE Raised
        ELSE Returned(Some(decision))

\* ------------------------------------------- inputs of the decision engine

DecisionItems ==
    { MkItem(id, ty, RankTitle, <<>>, pr, du, co, fl) :
        id \in {"a", "b"}, ty \in {"task", "note", "unknown"}, pr \in Priorities,
        du \in {None, Some(216), Some(234)}, co \in {50, 69, 70, 80, 95},
        fl \in BOOLEAN }

\* -------------------------------------- specification: the decision engine

InitDecision ==
    /\ Fresh(ScoreNow)
    /\ inp \in [item : DecisionItems, decision_type : DecisionTypes]
    /\ out = Raised

DoNeedsDecision ==
    /\ op = "none"
    /\ op' = "needs_decision"
    /\ out' = needs_decision(inp.item)
    /\ UNCHANGED <<frames, brainState, stores, ingests, notified, now, inp>>

DoPrepare ==
    /\ op = "none"
    /\ op' = "prepare"
    /\ out' = prepare(inp.item, inp.decision_type)
    /\ UNCHANGED <<frames, brainState, stores, ingests, notified, now, inp>>

NextDecision == DoNeedsDecision \/ DoPrepare

SpecDecision == InitDecision /\ [][NextDecision]_vars

\* C6: prepare returns a decision whose deadline is the item's due date minus
\* one day when the item has a due date, and no deadline otherwise.
C6_DeadlineDayBefore ==
    op = "prepare" =>
        /\ ~out.raised
        /\ out.value # None
        /\ out.value[1].deadline =
              IF inp.item.due_date = None THEN None
              ELSE Some(inp.item.due_date[1] - 24)

\* C7: needs_decision is true exactly when confidence < 0.7, or the priority
\* is critical, or the needs_human_decision flag is set.
C7_NeedsDecisionIff ==
    op = "needs_decision" =>
        (out <=> ( \/ inp.item.confidence < 70
                   \/ inp.item.priority = "critical"
                   \/ inp.item.needs_human_decision ))

\* a critical item of high confidence and without the flag needs a decision
C7_Witness ==
    /\ op = "needs_decision"
    /\ inp.item.priority = "critical"
    /\ inp.item.confidence = 95
    /\ ~inp.item.needs_human_decision
    /\ out = TRUE

\* ------------------------------------------------------------------ Brain

MaxIngests == 2     \* ingest calls in one run

\* needs_attention_today that takes a due date only when it is before today
needs_attention_todayBeforeToday(items, t) ==
    SelectSeq(items, LAMBDA item :
        \/ (item.due_date # None /\ item.due_date[1] \div 24 < t \div 24)
        \/ item.priority = "critical"
        \/ item.needs_human_decision)

\* Prioritizer.needs_attention_today; t is datetime.now(), a date is a day number
needs_attention_today(items, t) ==
    SelectSeq(items, LAMBDA item :
        \/ (item.due_date # None /\ item.due_date[1] \div 24 <= t \div 24)
        \/ item.priority = "critical"
        \/ item.needs_human_decision)

\* ------------------------------------------- inputs of needs_attention_today

\* a task with nothing to attend to, a task due tomorrow at 00:00, a task due
\* today at 23:00, a critical flagged note that was due yesterday, and a
\* flagged event
AttentionPool ==
    { MkItem("p1", "task", RankTitle, <<>>, "none", None, 95, FALSE),
      MkItem("p2", "task", RankTitle, <<>>, "none", Some(ScoreNow + 24), 95, FALSE),
      MkItem("p3", "task", RankTitle, <<>>, "none", Some(ScoreNow + 23), 95, FALSE),
      MkItem("p4", "note", RankTitle, <<>>, "critical", Some(ScoreNow - 24), 50, TRUE),
      MkItem("p5", "event", RankTitle, <<>>, "none", None, 50, TRUE) }

\* ------------------------------------ specification: needs_attention_today

InitAttention ==
    /\ Fresh(ScoreNow)
    /\ inp \in [items : Lists(AttentionPool, MaxList)]
    /\ out = <<>>

DoNeedsAttentionToday ==
    /\ op = "none"
    /\ op' = "needs_attention_today"
    /\ out' = needs_attention_today(inp.items, now)
    /\ UNCHANGED <<frames, brainState, stores, ingests, notified, now, inp>>

NextAttention == DoNeedsAttentionToday

SpecAttention == InitAttention /\ [][NextAttention]_vars

\* C19: needs_attention_today returns exactly the input items that are due
\* today or earlier, or critical, or flagged for a human decision, each
\* qualifying position once and in input order.
C19_AttentionExactlyQualifying ==
    op = "needs_attention_today" =>
        LET items == inp.items
            Q == { i \in 1..Len(items) :
                     \/ (items[i].due_date # None
                         /\ items[i].due_date[1] \div 24 <= now \div 24)
                     \/ items[i].priority = "critical"
                     \/ items[i].needs_human_decision }
        IN  /\ Len(out) = Cardinality(Q)
            /\ \E f \in [1..Len(out) -> Q] :
                  /\ \A j, k \in 1..Len(out) : j < k => f[j] < f[k]
                  /\ \A k \in 1..Len(out) : out[k] = items[f[k]]

\* the item that meets all three conditions, the task due tomorrow and the
\* task due later today: the first comes out once, the second not at all
C19_Witness ==
    /\ op = "needs_attention_today"
    /\ Len(inp.items) = 3
    /\ inp.items[1].id = "p4" /\ inp.items[2].id = "p2" /\ inp.items[3].id = "p3"
    /\ Len(out) = 2
    /\ out[1].id = "p4" /\ out[2].id = "p3"

\* the except branch of _persist_item: conn.rollback() runs outside any try, so
\* its own error leaves the method; st is the durable state, unchanged by the
\* transaction that is given up
RollbackThen(db, st) == [raised |-> db.rollback = "raise", st |-> st]

\* Brain._persist_item. db holds the outcome of each store call: connect
\* (get_db_connection), execute (INSERT ... RETURNING id), commit, rollback,
\* upsert (VectorStore.upsert_note, which logs its own failures). st is
\* [tasks, notes, vectors, serial].
_persist_item(item, content, db, st) ==
    IF db.connect = "raise" THEN [raised |-> TRUE, st |-> st]
    ELSE IF db.execute = "raise" THEN RollbackThen(db, st)
    ELSE IF item.item_type = "task"
    THEN LET new_id == st.serial.tasks + 1
             drawn == [st EXCEPT !.serial.tasks = new_id]
             row == [id |-> new_id, title |-> item.title, description |-> content,
                     due_at |-> item.due_date]
         IN  IF db.commit = "raise" THEN RollbackThen(db, drawn)
             ELSE [raised |-> FALSE,
                   st |-> [drawn EXCEPT !.tasks = Append(@, row)]]
    ELSE LET new_id == st.serial.notes + 1
             drawn == [st EXCEPT !.serial.notes = new_id]
             row == [id |-> new_id, title |-> item.title, content |-> content]
             point == [id |-> new_id, content |-> content, title |-> item.title,
                       type |-> item.item_type, priority |-> item.priority]
             stored == [drawn EXCEPT !.notes = Append(@, row)]
         IN  IF db.commit = "raise" THEN RollbackThen(db, drawn)
             ELSE [raised |-> FALSE,
                   st |-> IF db.upsert = "ok"
                          THEN [stored EXCEPT !.vectors = @ \cup {point}]
                          ELSE stored]

\* ingest that leaves processed_today as it was
ingestNoCount(capture, env, db, b, st, t) ==
    LET p == process(capture, env)
        item == p.value[1]
        sc == score(item, None, t)
        nd == needs_decision(item)
        d == prepare(item, "clarification")
        b1 == IF nd THEN [b EXCEPT !.pending_decisions = Append(@, d.value[1])] ELSE b
        sent == (IF nd THEN <<"decision">> ELSE <<>>)
                \o (IF sc >= 80 * Scale THEN <<"urgent">> ELSE <<>>)
        pr == _persist_item(item, capture.content,
                            [db EXCEPT !.upsert = IF env.ready THEN @ ELSE "fail"], st)
    IN  IF p.raised \/ (nd /\ d.raised)
        THEN [raised |-> TRUE, value |-> None, b |-> b, st |-> st, notified |-> <<>>]
        ELSE IF pr.raised
        THEN [raised |-> TRUE, value |-> None, b |-> b1, st |-> pr.st, notified |-> sent]
        ELSE [raised |-> FALSE, value |-> Some(item),
              b |-> [b1 EXCEPT !.pending_items = Append(@, item)],
              st |-> pr.st, notified |-> sent]

\* Brain.ingest on the state b = [pending_items, pending_decisions,
\* processed_today] and the stores st at time t: the result, the state it
\* leaves and the notifications it sent. upsert_note stores nothing without
\* an embedding, and _get_embedding gives none when the oracle is not ready.
ingest(capture, env, db, b, st, t) ==
    LET p == process(capture, env)
        item == p.value[1]
        sc == score(item, None, t)
        nd == needs_decision(item)
        d == prepare(item, "clarification")
        b1 == IF nd THEN [b EXCEPT !.pending_decisions = Append(@, d.value[1])] ELSE b
        sent == (IF nd THEN <<"decision">> ELSE <<>>)
                \o (IF sc >= 80 * Scale THEN <<"urgent">> ELSE <<>>)
        pr == _persist_item(item, capture.content,
                            [db EXCEPT !.upsert = IF env.ready THEN @ ELSE "fail"], st)
    IN  IF p.raised
        THEN [raised |-> TRUE, value |-> None, b |-> b, st |-> st, notified |-> <<>>]
        ELSE IF nd /\ d.raised
        THEN [raised |-> TRUE, value |-> None, b |-> b, st |-> st, notified |-> <<>>]
        ELSE IF pr.raised
        THEN [raised |-> TRUE, value |-> None, b |-> b1, st |-> pr.st, notified |-> sent]
        ELSE [raised |-> FALSE, value |-> Some(item),
              b |-> [b1 EXCEPT !.pending_items = Append(@, item),
                               !.processed_today = @ + 1],
              st |-> pr.st, notified |-> sent]

\* resolve_decision that removes every decision of that id
resolve_decisionAll(decisions, decision_id, chosen_option) ==
    [found |-> \E i \in 1..Len(decisions) : decisions[i].id = decision_id,
     decisions |-> SelectSeq(decisions, LAMBDA d : d.id # decision_id)]

\* resolve_decision that pops the head of the list when the id is pending
resolve_decisionPopHead(decisions, decision_id, chosen_option) ==
    IF \E i \in 1..Len(decisions) : decisions[i].id = decision_id
    THEN [found |-> TRUE, decisions |-> Tail(decisions)]
    ELSE [found |-> FALSE, decisions |-> decisions]

\* Brain.resolve_decision: the first decision of that id is popped
resolve_decision(decisions, decision_id, chosen_option) ==
    LET hits == { i \in 1..Len(decisions) : decisions[i].id = decision_id }
    IN  IF hits = {} THEN [found |-> FALSE, decisions |-> decisions]
        ELSE LET i == CHOOSE k \in hits : \A m \in hits : k <= m
             IN  [found |-> TRUE,
                  decisions |-> SubSeq(decisions, 1, i - 1)
                                \o SubSeq(decisions, i + 1, Len(decisions))]

\* daily_review that notifies only when there is a focus task
daily_reviewFocusOnly(items, decisions, t) ==
    LET attention == needs_attention_today(items, t)
        focus == get_today_focus(items, 3, t)
    IN  [review |-> [needs_attention |-> Len(attention),
                     focus_items |-> [i \in 1..Len(focus) |-> focus[i].title],
                     pending_decisions |-> Len(decisions),
                     total_pending |-> Len(items)],
         notified |-> IF focus # <<>> THEN <<"review">> ELSE <<>>]

\* Brain.daily_review: the review it returns (without its "date" text)
daily_review(items, decisions, t) ==
    LET attention == needs_attention_today(items, t)
        focus == get_today_focus(items, 3, t)
    IN  [review |-> [needs_attention |-> Len(attention),
                     focus_items |-> [i \in 1..Len(focus) |-> focus[i].title],
                     pending_decisions |-> Len(decisions),
                     total_pending |-> Len(items)],
         notified |-> IF focus # <<>> \/ attention # <<>> THEN <<"review">> ELSE <<>>]

\* ---------------------------------------------------------- inputs of Brain

BrainCaptures ==
    { [id |-> "a", content |-> <<"U","R","G","E","N","T">>],
      [id |-> "b", content |-> <<"C","e"," ","s","o","i","r">>] }

BrainResults ==
    { [type |-> "task", summary |-> RankTitle, confidence |-> 95,
       reasoning |-> "llm reasoning", due_date |-> Some("2025-01-10")],
      [type |-> "task", summary |-> RankTitle, confidence |-> 95,
       reasoning |-> "llm reasoning", due_date |-> None] }

BrainEnvs ==
    { [ready |-> FALSE, strict |-> Raised, json |-> Raised] }
    \cup { [ready |-> TRUE, strict |-> Returned(Some(r)), json |-> Raised] :
            r \in BrainResults }

DbEnvs ==
    { [connect |-> "ok", execute |-> "ok", commit |-> "ok", rollback |-> "ok",
       upsert |-> "ok"],
      [connect |-> "raise", execute |-> "ok", commit |-> "ok", rollback |-> "ok",
       upsert |-> "ok"],
      [connect |-> "ok", execute |-> "raise", commit |-> "ok", rollback |-> "ok",
       upsert |-> "ok"],
      [connect |-> "ok", execute |-> "ok", commit |-> "raise", rollback |-> "raise",
       upsert |-> "ok"] }

DecisionIds == {"dec-a", "dec-xyz"}
Options == {"Go", "Ignorer / supprimer"}
FocusNs == {0, 1, 3}

\* the instants at which the run reads the clock: 2025-01-10T00:00 and a day later
Instants == {ScoreNow, ScoreNow + 24}

\* ------------------------------------------------------------ delete_item

\* the default threshold of VectorStore.delete_similar, 0.75 in hundredths
Threshold == 75

\* PostgreSQL LIKE on lowercased operands: % is any run of characters, _ is any
\* one character, a backslash takes the next pattern character literally
RECURSIVE Like(_, _)
Like(text, pat) ==
    IF pat = <<>> THEN text = <<>>
    ELSE IF pat[1] = "%"
    THEN Like(text, Tail(pat)) \/ (text # <<>> /\ Like(Tail(text), pat))
    ELSE IF text = <<>> THEN FALSE
    ELSE IF pat[1] = "_" THEN Like(Tail(text), Tail(pat))
    ELSE IF pat[1] = "\\" /\ Len(pat) >= 2
    THEN text[1] = pat[2] /\ Like(Tail(text), Tail(Tail(pat)))
    ELSE text[1] = pat[1] /\ Like(Tail(text), Tail(pat))

\* title ILIKE pattern
ILike(title, pattern) == Like(Lower(title), Lower(pattern))

\* the rows that "SELECT id, title FROM tasks WHERE title ILIKE %query%" can
\* yield, as positions in the task table
search_sql(rows, query) ==
    { i \in 1..Len(rows) : ILike(rows[i].title, <<"%">> \o query \o <<"%">>) }

\* delete_similar without the threshold test
delete_similarNoThreshold(query, vec, hit, points) ==
    IF \/ vec.client = "none"
       \/ vec.embed = "fail"
       \/ vec.query = "raise"
       \/ hit = None
       \/ vec.delete = "raise"
    THEN [value |-> None, vectors |-> points]
    ELSE [value |-> Some(hit[1].point.content),
          vectors |-> points \ {hit[1].point}]

\* VectorStore.delete_similar with the default threshold. vec holds the
\* outcome of each call: client (None when Qdrant was unreachable at start),
\* embed (_get_embedding), query (query_points), delete; hit is the closest
\* point with its score, or None for an empty collection. The result is the
\* returned content and the collection left.
delete_similar(query, vec, hit, points) ==
    IF vec.client = "none" THEN [value |-> None, vectors |-> points]
    ELSE IF vec.embed = "fail" THEN [value |-> None, vectors |-> points]
    ELSE IF vec.query = "raise" THEN [value |-> None, vectors |-> points]
    ELSE IF hit = None THEN [value |-> None, vectors |-> points]
    ELSE IF hit[1].score < Threshold THEN [value |-> None, vectors |-> points]
    ELSE IF vec.delete = "raise" THEN [value |-> None, vectors |-> points]
    ELSE [value |-> Some(hit[1].point.content),
          vectors |-> points \ {hit[1].point}]

\* delete_item that also drops the pending items titled like the deleted task
delete_itemForgetsItem(query, db, vec, pick, hit, b, st) ==
    LET raised == [raised |-> TRUE, value |-> [kind |-> "raised", text |-> <<>>],
                   b |-> b, st |-> st]
        note == delete_similar(query, vec, hit, st.vectors)
        fallback ==
            [raised |-> FALSE,
             value |-> IF note.value # None /\ note.value[1] # <<>>
                       THEN [kind |-> "note", text |-> note.value[1]]
                       ELSE [kind |-> "nothing", text |-> <<>>],
             b |-> b,
             st |-> [st EXCEPT !.vectors = note.vectors]]
        failed == IF db.rollback = "raise" THEN raised ELSE fallback
    IN  IF db.connect = "raise" THEN raised
        ELSE IF db.select = "raise" THEN failed
        ELSE IF pick = 0 THEN fallback
        ELSE IF db.delete = "raise" \/ db.commit = "raise" THEN failed
        ELSE [raised |-> FALSE,
              value |-> [kind |-> "task", text |-> st.tasks[pick].title],
              b |-> [b EXCEPT !.pending_items =
                        SelectSeq(@, LAMBDA item : item.title # st.tasks[pick].title)],
              st |-> [st EXCEPT !.tasks = SubSeq(@, 1, pick - 1)
                                         \o SubSeq(@, pick + 1, Len(@))]]

\* Brain.delete_item on the state b = [pending_items, pending_decisions,
\* processed_today, last_review] and the stores st. db holds the outcome of
\* each task-store call: connect, select, delete, commit, rollback; pick is
\* the position of the row that the LIMIT 1 search returned, 0 for no row.
\* The result is the message (its kind and the text it quotes), the state and
\* the stores left; raised when an error leaves the method.
delete_item(query, db, vec, pick, hit, b, st) ==
    LET raised == [raised |-> TRUE, value |-> [kind |-> "raised", text |-> <<>>],
                   b |-> b, st |-> st]
        note == delete_similar(query, vec, hit, st.vectors)
        fallback ==
            [raised |-> FALSE,
             value |-> IF note.value # None /\ note.value[1] # <<>>
                       THEN [kind |-> "note", text |-> note.value[1]]
                       ELSE [kind |-> "nothing", text |-> <<>>],
             b |-> b,
             st |-> [st EXCEPT !.vectors = note.vectors]]
        failed == IF db.rollback = "raise" THEN raised ELSE fallback
    IN  IF db.connect = "raise" THEN raised
        ELSE IF db.select = "raise" THEN failed
        ELSE IF pick = 0 THEN fallback
        ELSE IF db.delete = "raise" \/ db.commit = "raise" THEN failed
        ELSE [raised |-> FALSE,
              value |-> [kind |-> "task", text |-> st.tasks[pick].title],
              b |-> b,
              st |-> [st EXCEPT !.tasks = SubSeq(@, 1, pick - 1)
                                         \o SubSeq(@, pick + 1, Len(@))]]

\* delete_item gets as far as query_points: the task step fell through, the
\* Qdrant client is there and the query was embedded
SearchReached(db, vec, pick) ==
    /\ db.connect = "ok"
    /\ IF db.select = "raise" \/ (pick # 0 /\ (db.delete = "raise" \/ db.commit = "raise"))
       THEN db.rollback = "ok"
       ELSE pick = 0
    /\ vec.client = "ok"
    /\ vec.embed = "ok"

\* -------------------------------------------------- inputs of delete_item

\* a part of the task title in another case, a pattern with a wildcard, and a
\* text that no title holds
Queries ==
    { <<"N","E","W">>, <<"r","_","n">>, <<"m","i","l","k">> }

DeleteDbEnvs ==
    { [connect |-> "ok", select |-> "ok", delete |-> "ok", commit |-> "ok",
       rollback |-> "ok"],
      [connect |-> "raise", select |-> "ok", delete |-> "ok", commit |-> "ok",
       rollback |-> "ok"],
      [connect |-> "ok", select |-> "raise", delete |-> "ok", commit |-> "ok",
       rollback |-> "ok"],
      [connect |-> "ok", select |-> "ok", delete |-> "raise", commit |-> "ok",
       rollback |-> "ok"],
      [connect |-> "ok", select |-> "ok", delete |-> "ok", commit |-> "raise",
       rollback |-> "raise"] }

VectorEnvs ==
    { [client |-> "ok", embed |-> "ok", query |-> "ok", delete |-> "ok"],
      [client |-> "none", embed |-> "ok", query |-> "ok", delete |-> "ok"],
      [client |-> "ok", embed |-> "fail", query |-> "ok", delete |-> "ok"],
      [client |-> "ok", embed |-> "ok", query |-> "ok", delete |-> "raise"] }

\* cosine similarities below, at and above the threshold
Scores == {60, Threshold, 90}

\* what query_points(limit=1) can yield over the collection, with scores in S
Hits(points, S) ==
    IF points = {} THEN {None}
    ELSE { Some([point |-> p, score |-> s]) : p \in points, s \in S }

\* the oracle outcomes that fill the stores: a classification that fails with
\* the client ready (a note, vectorised) and a task without due date
StoreEnvs ==
    { [ready |-> TRUE, strict |-> Raised, json |-> Raised],
      [ready |-> TRUE,
       strict |-> Returned(Some([type |-> "task", summary |-> RankTitle,
                                 confidence |-> 95, reasoning |-> "llm reasoning",
                                 due_date |-> None])),
       json |-> Raised] }

StoreCaptures == { [id |-> "a", content |-> <<"U","R","G","E","N","T">>] }

\* a capture without text, which the fallback turns into a note without
\* content
EmptyCaptures == { [id |-> "e", content |-> <<>>] }
FailedEnvs == { e \in StoreEnvs : e.strict.raised }

StoreDbEnvs ==
    { [connect |-> "ok", execute |-> "ok", commit |-> "ok", rollback |-> "ok",
       upsert |-> "ok"] }

\* ------------------------------------------------------ specification: Brain

Init ==
    /\ Fresh(ScoreNow)
    /\ inp = <<>>
    /\ out = <<>>

\* an ingest call with its capture, oracle outcome and store outcomes drawn
\* from C, E and D
IngestFrom(C, E, D) ==
    /\ ingests < MaxIngests
    /\ \E capture \in C, env \in E, db \in D :
          LET r == ingest(capture, env, db,
                          [pending_items |-> pending_items,
                           pending_decisions |-> pending_decisions,
                           processed_today |-> processed_today],
                          [tasks |-> tasks, notes |-> notes, vectors |-> vectors,
                           serial |-> serial],
                          now)
          IN  /\ op' = "ingest"
              /\ inp' = [capture |-> capture, env |-> env, db |-> db]
              /\ out' = [raised |-> r.raised, value |-> r.value]
              /\ pending_items' = r.b.pending_items
              /\ pending_decisions' = r.b.pending_decisions
              /\ processed_today' = r.b.processed_today
              /\ tasks' = r.st.tasks
              /\ notes' = r.st.notes
              /\ vectors' = r.st.vectors
              /\ serial' = r.st.serial
              /\ notified' = r.notified
    /\ ingests' = ingests + 1
    /\ UNCHANGED <<frames, last_review, now>>

Ingest == IngestFrom(BrainCaptures, BrainEnvs, DbEnvs)

\* a delete_item call with its query, task-store outcomes, semantic-store
\* outcomes and similarity drawn from Q, D, V and S
DeleteFrom(Q, D, V, S) ==
    \E query \in Q, db \in D, vec \in V :
        \E pick \in (IF search_sql(tasks, query) = {} THEN {0}
                      ELSE search_sql(tasks, query)) :
            \E hit \in (IF SearchReached(db, vec, pick) THEN Hits(vectors, S)
                         ELSE {None}) :
                LET r == delete_item(query, db, vec, pick, hit,
                                     [pending_items |-> pending_items,
                                      pending_decisions |-> pending_decisions,
                                      processed_today |-> processed_today,
                                      last_review |-> last_review],
                                     [tasks |-> tasks, notes |-> notes,
                                      vectors |-> vectors, serial |-> serial])
                IN  /\ op' = "delete_item"
                    /\ inp' = [query |-> query, db |-> db, vec |-> vec, hit |-> hit]
                    /\ out' = [raised |-> r.raised, value |-> r.value]
                    /\ pending_items' = r.b.pending_items
                    /\ pending_decisions' = r.b.pending_decisions
                    /\ processed_today' = r.b.processed_today
                    /\ last_review' = r.b.last_review
                    /\ tasks' = r.st.tasks
                    /\ notes' = r.st.notes
                    /\ vectors' = r.st.vectors
                    /\ serial' = r.st.serial
                    /\ notified' = <<>>
                    /\ UNCHANGED <<frames, ingests, now>>

ResolveDecision ==
    \E decision_id \in DecisionIds, chosen_option \in Options :
        LET r == resolve_decision(pending_decisions, decision_id, chosen_option)
        IN  /\ op' = "resolve_decision"
            /\ inp' = [decision_id |-> decision_id, chosen_option |-> chosen_option]
            /\ out' = r.found
            /\ pending_decisions' = r.decisions
            /\ notified' = <<>>
            /\ UNCHANGED <<frames, pending_items, processed_today, last_review, stores,
                           ingests, now>>

GetTodayFocus ==
    \E n \in FocusNs :
        /\ op' = "get_today_focus"
        /\ inp' = [n |-> n]
        /\ out' = get_today_focus(pending_items, n, now)
        /\ notified' = <<>>
        /\ UNCHANGED <<frames, brainState, stores, ingests, now>>

DailyReview ==
    LET r == daily_review(pending_items, pending_decisions, now)
    IN  /\ op' = "daily_review"
        /\ inp' = <<>>
        /\ out' = r.review
        /\ last_review' = Some(now)
        /\ notified' = r.notified
        /\ UNCHANGED <<frames, pending_items, pending_decisions, processed_today, stores,
                       ingests, now>>

\* a day passes
Tick ==
    /\ now + 24 \in Instants
    /\ now' = now + 24
    /\ op' = "tick"
    /\ inp' = <<>>
    /\ out' = <<>>
    /\ notified' = <<>>
    /\ UNCHANGED <<frames, brainState, stores, ingests>>

Next == Ingest \/ ResolveDecision \/ GetTodayFocus \/ DailyReview \/ Tick

Spec == Init /\ [][Next]_vars

\* the call reached _persist_item and a store call of its transaction failed
PersistenceFailed ==
    /\ op = "ingest"
    /\ ~(needs_decision(process(inp.capture, inp.env).value[1])
         /\ prepare(process(inp.capture, inp.env).value[1], "clarification").raised)
    /\ \/ inp.db.connect = "raise"
       \/ inp.db.execute = "raise"
       \/ inp.db.commit = "raise"

\* C2: an ingest whose persistence fails still returns the item, appends it
\* to pending_items and increments processed_today.
C2_PersistFailureKeepsItem ==
    [][ PersistenceFailed' =>
            /\ ~out'.raised
            /\ out'.value # None
            /\ pending_items' = Append(pending_items, out'.value[1])
            /\ processed_today' = processed_today + 1 ]_vars

\* C4: every pending decision has the id "dec-" + its item id, and no two
\* pending decisions share an item id.
C4_OneOpenDecisionPerItem ==
    /\ \A i \in 1..Len(pending_decisions) :
          pending_decisions[i].id = "dec-" \o pending_decisions[i].related_items[1]
    /\ \A i, j \in 1..Len(pending_decisions) :
          i # j => pending_decisions[i].related_items # pending_decisions[j].related_items

\* C5: resolve_decision returns true exactly when a pending decision has the
\* id, and then removes the first such decision and nothing else; otherwise
\* it leaves the list as it is. The chosen option plays no part.
C5_ResolveRemovesOneMatch ==
    [][ op' = "resolve_decision" =>
            LET old == pending_decisions
                new == pending_decisions'
                hits == { i \in 1..Len(old) : old[i].id = inp'.decision_id }
            IN  /\ out' = (hits # {})
                /\ hits = {} => new = old
                /\ hits # {} =>
                      /\ Len(new) = Len(old) - 1
                      /\ \E i \in hits :
                            /\ \A m \in hits : i <= m
                            /\ \A k \in 1..Len(new) :
                                  new[k] = IF k < i THEN old[k] ELSE old[k + 1]
                /\ UNCHANGED <<pending_items, processed_today, last_review>> ]_vars

\* a decision was resolved while another decision of the same id was pending:
\* that one is still there
C5_Witness ==
    /\ op = "resolve_decision"
    /\ out = TRUE
    /\ \E i \in 1..Len(pending_decisions) : pending_decisions[i].id = inp.decision_id

\* C17: an ingest that returns has appended the returned item at the end of
\* pending_items, added 1 to processed_today, and appended one decision with
\* id "dec-" + item id if the item needs a decision, and otherwise left
\* pending_decisions as it was.
C17_IngestAppends ==
    [][ (op' = "ingest" /\ ~out'.raised) =>
            LET item == out'.value[1]
                old == pending_decisions
                new == pending_decisions'
            IN  /\ pending_items' = Append(pending_items, item)
                /\ processed_today' = processed_today + 1
                /\ IF needs_decision(item)
                   THEN /\ Len(new) = Len(old) + 1
                        /\ SubSeq(new, 1, Len(old)) = old
                        /\ new[Len(new)].id = "dec-" \o item.id
                   ELSE new = old ]_vars

\* a second ingest returned an item that needs a decision: the item is last
\* of two items and its decision is the last one
C17_Witness ==
    /\ op = "ingest"
    /\ ~out.raised
    /\ needs_decision(out.value[1])
    /\ Len(pending_items) = 2
    /\ pending_items[2] = out.value[1]
    /\ processed_today = 2
    /\ pending_decisions # <<>>
    /\ pending_decisions[Len(pending_decisions)].id = "dec-" \o out.value[1].id

\* C18: ingest sends the urgent notification exactly when the score of the
\* item under the default context is at least 80, whether or not the item
\* needs a decision.
C18_UrgentIffScoreAtLeast80 ==
    op = "ingest" =>
        LET item == process(inp.capture, inp.env).value[1]
        IN  (\E i \in 1..Len(notified) : notified[i] = "urgent")
                <=> (score(item, None, now) >= 80 * Scale)

\* C26: between ingest calls every pending decision refers, through its
\* related item id, to an item of pending_items, also after an ingest that
\* raised.
C26_NoOrphanDecision ==
    \A i \in 1..Len(pending_decisions) :
        \E j \in 1..Len(pending_items) :
            pending_items[j].id = pending_decisions[i].related_items[1]

\* the ingest side of C30: an ingest of an item without due date and with
\* confidence in [0,1] sends no urgent notification
C30_IngestNoUrgentWithoutDueDate ==
    op = "ingest" =>
        LET item == process(inp.capture, inp.env).value[1]
        IN  (item.due_date = None /\ item.confidence >= 0 /\ item.confidence <= 100)
                => \A i \in 1..Len(notified) : notified[i] # "urgent"

\* C20: daily_review reports the number of needs-attention items, the titles
\* of the three focus tasks, the number of pending decisions and of pending
\* items; it notifies exactly when the attention list or the focus list is
\* not empty, records the time of the review, and leaves pending_items,
\* pending_decisions and processed_today as they were.
C20_DailyReviewReport ==
    [][ op' = "daily_review" =>
            LET attention == needs_attention_today(pending_items, now)
                focus == get_today_focus(pending_items, 3, now)
            IN  /\ out'.needs_attention = Len(attention)
                /\ Len(out'.focus_items) = Len(focus)
                /\ Len(focus) <= 3
                /\ \A i \in 1..Len(focus) :
                      /\ out'.focus_items[i] = focus[i].title
                      /\ focus[i].item_type = "task"
                /\ out'.pending_decisions = Len(pending_decisions)
                /\ out'.total_pending = Len(pending_items)
                /\ (notified' = <<"review">>) <=> (attention # <<>> \/ focus # <<>>)
                /\ (notified' = <<>>) <=> (attention = <<>> /\ focus = <<>>)
                /\ last_review' = Some(now)
                /\ UNCHANGED <<pending_items, pending_decisions, processed_today>> ]_vars

\* a review over a flagged note and no task: nothing to focus on, one item
\* needs attention, and the notification is sent
C20_Witness ==
    /\ op = "daily_review"
    /\ out.focus_items = <<>>
    /\ out.needs_attention = 1
    /\ out.total_pending = 1
    /\ notified = <<"review">>
    /\ last_review = Some(now)

\* ---------------------------------------------- specification: delete_item

\* the ingest calls that fill the task table and the note collection
IngestStored ==
    \/ IngestFrom(StoreCaptures, StoreEnvs, StoreDbEnvs)
    \/ IngestFrom(EmptyCaptures, FailedEnvs, StoreDbEnvs)

DeleteItem == DeleteFrom(Queries, DeleteDbEnvs, VectorEnvs, Scores)

NextDelete == IngestStored \/ DeleteItem

SpecDelete == Init /\ [][NextDelete]_vars

\* C28: a delete_item call removes at most one record, never a task and a
\* note together, and a call that reports that nothing was found has removed
\* none.
C28_AtMostOneRecord ==
    [][ op' = "delete_item" =>
            /\ (Len(tasks) - Len(tasks')) + Cardinality(vectors \ vectors') <= 1
            /\ notes' = notes
            /\ (~out'.raised /\ out'.value.kind = "nothing") =>
                    (tasks' = tasks /\ vectors' = vectors) ]_vars

\* ------------------------------- specification: every operation of Brain

\* the oracle outcomes of the run: a failed classification with the client
\* ready (a note, vectorised), a task without due date, a task due today
AllEnvs == StoreEnvs \cup { e \in BrainEnvs : e.ready /\ e.strict.value[1].due_date # None }

\* the store is reachable and answers, or it is unreachable
AllDbEnvs == { db \in DbEnvs : db.execute = "ok" /\ db.commit = "ok" }

AllQueries == { <<"N","E","W">>, <<"m","i","l","k">> }
AllDeleteDbEnvs == { db \in DeleteDbEnvs : db.connect = "ok" /\ db.rollback = "ok"
                                         /\ db.select = "ok" /\ db.commit = "ok" }
AllVectorEnvs == { vec \in VectorEnvs : vec.client = "ok" /\ vec.embed = "ok"
                                       /\ vec.delete = "ok" }

AllScores == { s \in Scores : s > Threshold }

IngestAny == IngestFrom(BrainCaptures, AllEnvs, AllDbEnvs)

DeleteAny == DeleteFrom(AllQueries, AllDeleteDbEnvs, AllVectorEnvs, AllScores)

NextAll ==
    IngestAny \/ ResolveDecision \/ GetTodayFocus \/ DailyReview \/ DeleteAny \/ Tick

SpecAll == Init /\ [][NextAll]_vars

\* C21: a pending decision stays in pending_decisions, in its place, over
\* every ingest, get_today_focus, daily_review and delete_item call and over
\* the passing of time; a resolve_decision call leaves every decision of
\* another id in place.
C21_DecisionStaysUntilResolved ==
    [][ LET old == pending_decisions
            new == pending_decisions'
        IN  IF op' = "resolve_decision"
            THEN SelectSeq(new, LAMBDA d : d.id # inp'.decision_id)
                 = SelectSeq(old, LAMBDA d : d.id # inp'.decision_id)
            ELSE /\ Len(new) >= Len(old)
                 /\ SubSeq(new, 1, Len(old)) = old ]_vars

\* a decision was resolved and the decision pending before it, of another
\* id, is still there
C21_Witness ==
    /\ op = "resolve_decision"
    /\ out = TRUE
    /\ pending_decisions # <<>>
    /\ \A i \in 1..Len(pending_decisions) : pending_decisions[i].id # inp.decision_id
    /\ Len(pending_items) = 2
    /\ pending_items[1].id = pending_decisions[1].related_items[1]

\* C25: processed_today is the length of pending_items in every state, and
\* no step removes or reorders a pending item or lowers the counter; only
\* ingest changes either.
C25_CounterIsLength ==
    /\ processed_today = Len(pending_items)
    /\ [][ /\ processed_today' = Len(pending_items')
           /\ Len(pending_items') >= Len(pending_items)
           /\ SubSeq(pending_items', 1, Len(pending_items)) = pending_items
           /\ op' # "ingest" => UNCHANGED <<pending_items, processed_today>> ]_vars

\* two items were ingested, a task was deleted from the store and a decision
\* resolved: both items are still pending and counted
C25_Witness ==
    /\ op = "resolve_decision"
    /\ out = TRUE
    /\ serial.tasks = 1
    /\ tasks = <<>>
    /\ Len(pending_items) = 2
    /\ processed_today = 2

\* C27: delete_item leaves pending_items, pending_decisions, processed_today
\* and last_review as they were, whatever it deletes.
C27_DeleteKeepsBrainState ==
    [][ op' = "delete_item" => UNCHANGED brainState ]_vars

\* the only stored task was deleted from the task store, and get_today_focus
\* still returns its item
C27_Witness ==
    /\ op = "get_today_focus"
    /\ serial.tasks = 1
    /\ tasks = <<>>
    /\ out # <<>>
    /\ out[1].item_type = "task"

\* C11: when a task title contains the query (case-insensitive substring), a
\* delete_item call that returns has deleted one such task and no note,
\* whatever the note collection holds.
C11_TaskMatchDeletesTaskOnly ==
    [][ (op' = "delete_item" /\ ~out'.raised) =>
            LET query == Lower(inp'.query)
                hits == { i \in 1..Len(tasks) : Contains(Lower(tasks[i].title), query) }
            IN  hits # {} =>
                    /\ \E i \in hits :
                          tasks' = SubSeq(tasks, 1, i - 1)
                                   \o SubSeq(tasks, i + 1, Len(tasks))
                    /\ vectors' = vectors
                    /\ notes' = notes ]_vars

\* C12: delete_item never raises; it returns the task-deleted, the
\* note-deleted or the nothing-found message, also when the task store or
\* the semantic store is unreachable or fails.
C12_DeleteNeverRaises ==
    op = "delete_item" =>
        /\ ~out.raised
        /\ out.value.kind \in {"task", "note", "nothing"}

\* the call went on to the semantic lookup and returned its message
FallbackRan == op = "delete_item" /\ ~out.raised /\ out.value.kind # "task"

\* C13, as stated: in the semantic fallback the closest note is deleted only
\* if its similarity is above the threshold; at or below the threshold
\* nothing is deleted and the call reports that nothing was found.
C13_DeletedOnlyAboveThreshold ==
    [][ FallbackRan' =>
            LET hit == inp'.hit
            IN  /\ vectors' # vectors =>
                      /\ hit # None
                      /\ hit[1].score > Threshold
                      /\ vectors' = vectors \ {hit[1].point}
                /\ (hit # None /\ hit[1].score <= Threshold) =>
                      /\ vectors' = vectors
                      /\ out'.value.kind = "nothing" ]_vars

\* C13, amended: in the semantic fallback the closest note is deleted only
\* if its similarity is at least the threshold; below the threshold nothing
\* is deleted and the call reports that nothing was found.
C13_DeletedOnlyAtOrAboveThreshold ==
    [][ FallbackRan' =>
            LET hit == inp'.hit
            IN  /\ vectors' # vectors =>
                      /\ hit # None
                      /\ hit[1].score >= Threshold
                      /\ vectors' = vectors \ {hit[1].point}
                /\ (hit # None /\ hit[1].score < Threshold) =>
                      /\ vectors' = vectors
                      /\ out'.value.kind = "nothing" ]_vars

\* the closest note has a similarity of exactly 0.75: it is deleted and the
\* call reports the note
C13_Witness ==
    /\ FallbackRan
    /\ inp.hit # None
    /\ inp.hit[1].score = Threshold
    /\ inp.hit[1].point \notin vectors
    /\ out.value.kind = "note"

\* ----------------------------------- specification: the stages of ingest

\* ingest with the item appended and counted before it is persisted
IngestStagesAppendEarly ==
    <<"process", "score", "decide", "urgent", "append", "persist">>

\* the statements of ingest in program order: 1. Clarifier, 2. Scorer,
\* 3. Decision Needed?, 4. Notify if Urgent, 5. Persist, 6. Update State
IngestStages ==
    <<"process", "score", "decide", "urgent", "persist", "append">>

\* the stage that follows pc, "return" after the last one
NextStage(pc) ==
    LET k == CHOOSE i \in 1..Len(IngestStages) : IngestStages[i] = pc
    IN  IF k = Len(IngestStages) THEN "return" ELSE IngestStages[k + 1]

\* the frame of the call once the stage at f.pc has run with locals g
AfterStage(g) ==
    IF NextStage(g.pc) = "return" THEN <<>>
    ELSE << [g EXCEPT !.pc = NextStage(g.pc), !.done = Append(@, g.pc)] >>

\* what the caller has got once the stage at g.pc has run
ReturnAfter(g) ==
    IF NextStage(g.pc) = "return" THEN Returned(g.item) ELSE <<>>

\* brain.ingest(capture) is entered
IngestCall ==
    /\ frames = <<>>
    /\ ingests < MaxIngests
    /\ \E capture \in BrainCaptures, env \in BrainEnvs, db \in AllDbEnvs :
          /\ frames' = << [pc |-> IngestStages[1], done |-> <<>>, capture |-> capture,
                           env |-> env, db |-> db, item |-> None, score |-> 0,
                           attempted |-> FALSE] >>
          /\ inp' = [capture |-> capture, env |-> env, db |-> db]
    /\ ingests' = ingests + 1
    /\ op' = "ingest.call"
    /\ out' = <<>>
    /\ notified' = <<>>
    /\ UNCHANGED <<brainState, stores, now>>

\* item = processor.process(capture)
StageProcess ==
    /\ frames # <<>>
    /\ frames[1].pc = "process"
    /\ LET f == frames[1]
           p == process(f.capture, f.env)
       IN  IF p.raised
           THEN frames' = <<>> /\ out' = Raised
           ELSE LET g == [f EXCEPT !.item = p.value]
                IN  frames' = AfterStage(g) /\ out' = ReturnAfter(g)
    /\ op' = "ingest.process"
    /\ UNCHANGED <<brainState, stores, ingests, notified, now, inp>>

\* score = prioritizer.score(item)
StageScore ==
    /\ frames # <<>>
    /\ frames[1].pc = "score"
    /\ LET g == [frames[1] EXCEPT !.score = score(frames[1].item[1], None, now)]
       IN  frames' = AfterStage(g) /\ out' = ReturnAfter(g)
    /\ op' = "ingest.score"
    /\ UNCHANGED <<brainState, stores, ingests, notified, now, inp>>

\* if needs_decision(item): prepare, append to pending_decisions, notify
StageDecide ==
    /\ frames # <<>>
    /\ frames[1].pc = "decide"
    /\ LET f == frames[1]
           item == f.item[1]
           d == prepare(item, "clarification")
       IN  IF ~needs_decision(item)
           THEN /\ frames' = AfterStage(f) /\ out' = ReturnAfter(f)
                /\ UNCHANGED <<pending_decisions, notified>>
           ELSE IF d.raised
           THEN /\ frames' = <<>> /\ out' = Raised
                /\ UNCHANGED <<pending_decisions, notified>>
           ELSE /\ pending_decisions' = Append(pending_decisions, d.value[1])
                /\ notified' = Append(notified, "decision")
                /\ frames' = AfterStage(f) /\ out' = ReturnAfter(f)
    /\ op' = "ingest.decide"
    /\ UNCHANGED <<pending_items, processed_today, last_review, stores, ingests,
                   now, inp>>

\* if score >= 80: notify the urgent item
StageUrgent ==
    /\ frames # <<>>
    /\ frames[1].pc = "urgent"
    /\ notified' = IF frames[1].score >= 80 * Scale
                   THEN Append(notified, "urgent") ELSE notified
    /\ frames' = AfterStage(frames[1]) /\ out' = ReturnAfter(frames[1])
    /\ op' = "ingest.urgent"
    /\ UNCHANGED <<brainState, stores, ingests, now, inp>>

\* self._persist_item(item, capture.content)
StagePersist ==
    /\ frames # <<>>
    /\ frames[1].pc = "persist"
    /\ LET f == frames[1]
           pr == _persist_item(f.item[1], f.capture.content,
                               [f.db EXCEPT !.upsert = IF f.env.ready THEN @ ELSE "fail"],
                               [tasks |-> tasks, notes |-> notes, vectors |-> vectors,
                                serial |-> serial])
           g == [f EXCEPT !.attempted = TRUE]
       IN  /\ tasks' = pr.st.tasks
           /\ notes' = pr.st.notes
           /\ vectors' = pr.st.vectors
           /\ serial' = pr.st.serial
           /\ IF pr.raised
              THEN frames' = <<>> /\ out' = Raised
              ELSE frames' = AfterStage(g) /\ out' = ReturnAfter(g)
    /\ op' = "ingest.persist"
    /\ UNCHANGED <<brainState, ingests, notified, now, inp>>

\* pending_items.append(item); processed_today += 1
StageAppend ==
    /\ frames # <<>>
    /\ frames[1].pc = "append"
    /\ pending_items' = Append(pending_items, frames[1].item[1])
    /\ processed_today' = processed_today + 1
    /\ frames' = AfterStage(frames[1]) /\ out' = ReturnAfter(frames[1])
    /\ op' = "ingest.append"
    /\ UNCHANGED <<pending_decisions, last_review, stores, ingests, notified, now,
                   inp>>

NextStages ==
    \/ IngestCall
    \/ StageProcess
    \/ StageScore
    \/ StageDecide
    \/ StageUrgent
    \/ StagePersist
    \/ StageAppend

SpecStages == Init /\ [][NextStages]_vars

\* C22: the stages of one ingest call run in the order process, score,
\* decision step, urgent notification, persistence, append; the decision is
\* appended and notified while the item is not yet pending and nothing is
\* persisted, the urgent notification comes after the decision's, and the
\* item is appended and counted only after persistence was attempted, as the
\* last step before the call returns.
C22_StagesInOrder ==
    /\ [](frames # <<>> =>
            LET f == frames[1]
                order == <<"process", "score", "decide", "urgent", "persist", "append">>
            IN  /\ Len(f.done) < Len(order)
                /\ f.done = SubSeq(order, 1, Len(f.done))
                /\ f.pc = order[Len(f.done) + 1])
    /\ [][ /\ pending_decisions' # pending_decisions =>
                /\ op' = "ingest.decide"
                /\ ~frames[1].attempted
                /\ UNCHANGED <<pending_items, processed_today, stores>>
                /\ notified = <<>>
                /\ notified' = <<"decision">>
           /\ op' = "ingest.urgent" => UNCHANGED <<brainState, stores>>
           /\ op' = "ingest.persist" => UNCHANGED brainState
           /\ pending_items' # pending_items =>
                /\ op' = "ingest.append"
                /\ frames[1].attempted
                /\ pending_items' = Append(pending_items, frames[1].item[1])
                /\ processed_today' = processed_today + 1
                /\ frames' = <<>>
                /\ out' = Returned(frames[1].item)
                /\ UNCHANGED <<pending_decisions, stores, notified>> ]_vars

\* the call stands before its last stage: the note is stored, its decision
\* is pending and notified, and the item is not yet pending
C22_Witness ==
    /\ frames # <<>>
    /\ frames[1].pc = "append"
    /\ frames[1].attempted
    /\ notes # <<>>
    /\ notified = <<"decision">>
    /\ pending_decisions # <<>>
    /\ pending_decisions[Len(pending_decisions)].id = "dec-" \o frames[1].item[1].id
    /\ pending_items = <<>>

\* ------------------- specification: two concurrent resolve_decision calls

\* the threads of the hosting layer that call resolve_decision at once
Calls == {1, 2}

\* the oracle is unavailable, so that every ingest asks for a decision
RaceEnvs == { env \in BrainEnvs : ~env.ready }

\* an ingest that runs while no resolve_decision call is in progress
IngestPending ==
    /\ frames = <<>>
    /\ IngestFrom(BrainCaptures, RaceEnvs, StoreDbEnvs)

\* both threads enter resolve_decision; enumerate() starts at index 0
ResolveCall ==
    /\ frames = <<>>
    /\ \E ids \in [Calls -> DecisionIds], chosen_option \in Options :
          /\ frames' = [k \in Calls |->
                          [pc |-> "next", decision_id |-> ids[k], i |-> 0,
                           dec |-> None, removed |-> None, result |-> None]]
          /\ inp' = [decision_ids |-> ids, chosen_option |-> chosen_option]
    /\ op' = "resolve_decision.call"
    /\ out' = <<>>
    /\ notified' = <<>>
    /\ UNCHANGED <<brainState, stores, ingests, now>>

\* for i, dec in enumerate(...): the list iterator hands out the entry at its
\* index, or the loop ends and the call returns False
ResolveNext(k) ==
    /\ frames # <<>>
    /\ frames[k].pc = "next"
    /\ LET f == frames[k]
       IN  frames' = [frames EXCEPT ![k] =
                        IF f.i < Len(pending_decisions)
                        THEN [f EXCEPT !.dec = Some(pending_decisions[f.i + 1]),
                                       !.pc = "test"]
                        ELSE [f EXCEPT !.result = Some(FALSE), !.pc = "done"]]
    /\ op' = "resolve_decision.next"
    /\ UNCHANGED <<brainState, stores, ingests, notified, now, inp, out>>

\* if dec.id == decision_id
ResolveTest(k) ==
    /\ frames # <<>>
    /\ frames[k].pc = "test"
    /\ LET f == frames[k]
       IN  frames' = [frames EXCEPT ![k] =
                        IF f.dec[1].id = f.decision_id
                        THEN [f EXCEPT !.pc = "pop"]
                        ELSE [f EXCEPT !.i = f.i + 1, !.pc = "next"]]
    /\ op' = "resolve_decision.test"
    /\ UNCHANGED <<brainState, stores, ingests, notified, now, inp, out>>

\* self.state.pending_decisions.pop(i); return True. list.pop raises
\* IndexError when the list has no entry at i any more
ResolvePop(k) ==
    /\ frames # <<>>
    /\ frames[k].pc = "pop"
    /\ LET i == frames[k].i + 1
       IN  IF i <= Len(pending_decisions)
           THEN /\ pending_decisions' = SubSeq(pending_decisions, 1, i - 1)
                        \o SubSeq(pending_decisions, i + 1, Len(pending_decisions))
                /\ frames' = [frames EXCEPT ![k] =
                                [@ EXCEPT !.removed = Some(pending_decisions[i]),
                                          !.result = Some(TRUE), !.pc = "done"]]
           ELSE /\ UNCHANGED pending_decisions
                /\ frames' = [frames EXCEPT ![k] = [@ EXCEPT !.pc = "raised"]]
    /\ op' = "resolve_decision.pop"
    /\ UNCHANGED <<pending_items, processed_today, last_review, stores, ingests,
                   notified, now, inp, out>>

\* both calls are over and the hosting layer has their outcomes
ResolveJoin ==
    /\ frames # <<>>
    /\ \A k \in Calls : frames[k].pc \in {"done", "raised"}
    /\ frames' = <<>>
    /\ op' = "resolve_decision.join"
    /\ out' = [k \in Calls |-> IF frames[k].pc = "raised" THEN Raised
                               ELSE Returned(frames[k].result[1])]
    /\ UNCHANGED <<brainState, stores, ingests, notified, now, inp>>

ResolveStep == \E k \in Calls : ResolveNext(k) \/ ResolveTest(k) \/ ResolvePop(k)

NextRace ==
    \/ IngestPending
    \/ ResolveCall
    \/ ResolveStep
    \/ ResolveJoin

SpecRace == Init /\ [][NextRace]_vars

\* C29: of two resolve_decision calls for the same id that interleave, at
\* most one removes a decision, none removes a decision of another id, and
\* neither raises.
C29_ConcurrentResolveSafe ==
    (frames # <<>> /\ frames[1].decision_id = frames[2].decision_id) =>
        /\ \A k \in Calls : frames[k].pc # "raised"
        /\ \E k \in Calls : frames[k].removed = None
        /\ \A k \in Calls : frames[k].removed # None =>
                               frames[k].removed[1].id = frames[k].decision_id

====
